---- MODULE Spec2Model ----
(***************************************************************************)
(* Model of go-rf's terrain normalisation and Fresnel-zone impingement     *)
(* code (helpers.go, rf.go).                                               *)
(*                                                                         *)
(* float64 values are modelled as exact rationals <<num, den>> (den > 0,   *)
(* lowest terms; den = 0 for the infinities and NaN; the sign of a zero    *)
(* is not kept).  math.Sqrt is the one rounding operation: it is computed  *)
(* to two decimal digits, which is exact on the perfect squares the path   *)
(* geometry below uses.  An angle is kept as a direction (x, y) with its   *)
(* length r; math.Sin and math.Cos of it are y/r and x/r, so a sine that   *)
(* float64 rounds to about 1e-16 is exactly zero here.  TerrainToPath      *)
(* alone takes the sine and cosine of a number of radians; these are       *)
(* computed in fixed point.  math.Log10 and math.Pow with a fractional     *)
(* exponent are kept as terms.                                             *)
(***************************************************************************)
EXTENDS Integers, Sequences, FiniteSets, TLC

\* Longest terrain profile (number of samples) the model enumerates.
MaxLen == 5

(***************************************************************************)
(* float64 arithmetic                                                      *)
(***************************************************************************)
Abs(a) == IF a < 0 THEN -a ELSE a

RECURSIVE GCD(_, _)
GCD(a, b) == IF b = 0 THEN a ELSE GCD(b, a % b)

Sgn(a) == IF a < 0 THEN -1 ELSE IF a > 0 THEN 1 ELSE 0

\* the float64 value n/d; a division by zero gives +Inf = <<1, 0>>,
\* -Inf = <<-1, 0>> or NaN = <<0, 0>> (the sign of a zero is not kept)
Rat(n, d) ==
    IF d = 0 THEN <<Sgn(n), 0>>
    ELSE LET s == IF d < 0 THEN -1 ELSE 1
             g == GCD(Abs(n), Abs(d))
         IN  <<(s * n) \div g, (s * d) \div g>>

\* float64(i)
R(i) == <<i, 1>>

NaN == <<0, 0>>
IsNaN(a) == a = NaN
IsFinite(a) == a[2] # 0

RAdd(a, b) ==
    IF IsFinite(a) /\ IsFinite(b)
    THEN LET g == GCD(a[2], b[2])
         IN  Rat(a[1] * (b[2] \div g) + b[1] * (a[2] \div g), (a[2] \div g) * b[2])
    ELSE IF IsNaN(a) \/ IsNaN(b) THEN NaN
    ELSE IF IsFinite(b) THEN a
    ELSE IF IsFinite(a) \/ a = b THEN b
    ELSE NaN
RNeg(a) == <<-a[1], a[2]>>
RSub(a, b) == RAdd(a, RNeg(b))
RMul(a, b) ==
    IF IsFinite(a) /\ IsFinite(b)
    THEN LET g1 == GCD(Abs(a[1]), b[2])
             g2 == GCD(Abs(b[1]), a[2])
         IN  Rat((a[1] \div g1) * (b[1] \div g2), (a[2] \div g2) * (b[2] \div g1))
    ELSE <<Sgn(a[1]) * Sgn(b[1]), 0>>
RDiv(a, b) == RMul(a, Rat(b[2], b[1]))
RLt(a, b) ==
    IF IsFinite(a) \/ IsFinite(b)
    THEN LET g == GCD(a[2], b[2])
         IN  a[1] * (b[2] \div g) < b[1] * (a[2] \div g)
    ELSE ~IsNaN(a) /\ ~IsNaN(b) /\ a[1] < b[1]
RLe(a, b) ==
    IF IsFinite(a) \/ IsFinite(b)
    THEN /\ ~IsNaN(a) /\ ~IsNaN(b)
         /\ LET g == GCD(a[2], b[2])
            IN  a[1] * (b[2] \div g) <= b[1] * (a[2] \div g)
    ELSE ~IsNaN(a) /\ ~IsNaN(b) /\ a[1] <= b[1]
RAbs(a) == <<Abs(a[1]), a[2]>>
Zero == R(0)
Half == Rat(1, 2)

\* floor((q * d + r) * 10^k / d) for 0 <= r < d, by long division
RECURSIVE LongDiv(_, _, _, _)
LongDiv(q, r, d, k) ==
    IF k = 0 THEN q
    ELSE LongDiv(q * 10 + (r * 10) \div d, (r * 10) % d, d, k - 1)

\* largest r in lo..hi with r * r <= s (lo * lo <= s)
RECURSIVE IsqrtIn(_, _, _)
IsqrtIn(s, lo, hi) ==
    IF lo = hi THEN lo
    ELSE LET mid == (lo + hi + 1) \div 2
         IN  IF mid * mid <= s THEN IsqrtIn(s, mid, hi) ELSE IsqrtIn(s, lo, mid - 1)

\* math.Sqrt, rounded down to two decimal digits; NaN below zero
Sqrt(q) ==
    IF ~IsFinite(q) THEN (IF q[1] > 0 THEN q ELSE NaN)
    ELSE IF q[1] < 0 THEN NaN
    ELSE Rat(IsqrtIn(LongDiv(q[1] \div q[2], q[1] % q[2], q[2], 4), 0, 46340), 100)

\* math.Pow(a, 2)
Pow2(a) == RMul(a, a)

\* math.Atan2(y, x): the angle of the direction (x, y), with its length r
Atan2(y, x) == [y |-> y, x |-> x, r |-> Sqrt(RAdd(Pow2(x), Pow2(y)))]
\* math.Sin and math.Cos of an angle returned by Atan2 (Atan2(0, 0) = 0)
Sin(theta) == IF theta.r = Zero THEN Zero ELSE RDiv(theta.y, theta.r)
Cos(theta) == IF theta.r = Zero THEN R(1) ELSE RDiv(theta.x, theta.r)

(***************************************************************************)
(* math.Sin and math.Cos of a float64 in radians, as TerrainToPath calls   *)
(* them: the Taylor series in fixed point, four decimal digits, good for   *)
(* arguments between -1 and 1 (the paths below have |height/d| <= 3/4)     *)
(***************************************************************************)
TrigScale == 10000

\* a / b rounded towards zero
Quot(a, b) == Sgn(a) * (Abs(a) \div b)
ToFixed(q) == Quot(q[1] * TrigScale, q[2])
FixedMul(a, b) == Quot(a * b, TrigScale)

\* term - term*x^2/((k+1)(k+2)) + ... up to the power kmax of x
RECURSIVE TaylorSum(_, _, _, _)
TaylorSum(term, x2, k, kmax) ==
    IF k > kmax THEN 0
    ELSE term + TaylorSum(Quot(-FixedMul(term, x2), (k + 1) * (k + 2)), x2, k + 2, kmax)

SinRad(q) ==
    IF ~IsFinite(q) THEN NaN
    ELSE LET fx == ToFixed(q)
         IN  Rat(TaylorSum(fx, FixedMul(fx, fx), 1, 9), TrigScale)

CosRad(q) ==
    IF ~IsFinite(q) THEN NaN
    ELSE LET fx == ToFixed(q)
         IN  Rat(TaylorSum(TrigScale, FixedMul(fx, fx), 0, 8), TrigScale)

(***************************************************************************)
(* helpers.go: TerrainToPath (its fmt.Printf lines are left out)           *)
(***************************************************************************)
\* d := v - h; nh := math.Cos(θ) * d
PathDiff(cosTheta, v, h) == RMul(cosTheta, RSub(v, h))

\* returns [deltaD, deltaH, theta, diffs]; diffs[i + 1] is the code's diffs[i]
TerrainToPath(p1, p2, d, terrain) ==
    LET height == RSub(p2, p1)
        theta == SinRad(RDiv(height, d))
        cosTheta == CosRad(theta)
        dist == RMul(cosTheta, d)
        n == Len(terrain)
        deltaH == RDiv(height, R(n - 1))
        deltaD == RDiv(dist, R(n - 1))
    IN  [deltaD |-> deltaD, deltaH |-> deltaH, theta |-> theta,
         diffs |-> [k \in 1..n |->
                       PathDiff(cosTheta, terrain[k], RAdd(p1, RMul(R(k - 1), deltaH)))]]

(***************************************************************************)
(* TerrainToFresnelKirchoff, the Fresnel-Kirchhoff reducer.  The tests     *)
(* call it, on top of TerrainToPath; its body is in none of the source     *)
(* files, and is taken from the specification's description of it          *)
(***************************************************************************)
\* mutant of TiePosition: the first of the tied samples
TiePosition_First(first, last) == R(first)

\* the midpoint of the run of tied samples first..last, as an index
TiePosition(first, last) == RDiv(R(first + last), R(2))

\* the scan from the 0-based sample i on: the largest value so far and the
\* run of adjacent samples first..last that hold it
RECURSIVE HighestScan(_, _, _)
HighestScan(diffs, i, acc) ==
    IF ~(i < Len(diffs)) THEN acc
    ELSE IF RLt(acc.max, diffs[i + 1])
    THEN HighestScan(diffs, i + 1, [max |-> diffs[i + 1], first |-> i, last |-> i])
    ELSE IF diffs[i + 1] = acc.max /\ i = acc.last + 1
    THEN HighestScan(diffs, i + 1, [acc EXCEPT !.last = i])
    ELSE HighestScan(diffs, i + 1, acc)

\* returns [highestImpingement, distanceToImpingement] and, for the record,
\* the run of tied samples; the spacing deltaD along the profile is divided
\* by cos(theta) to lie on the line of sight
TerrainToFresnelKirchoff(p1, p2, d, terrain) ==
    LET tp == TerrainToPath(p1, p2, d, terrain)
        acc == HighestScan(tp.diffs, 1, [max |-> tp.diffs[1], first |-> 0, last |-> 0])
    IN  [highestImpingement |-> acc.max,
         distanceToImpingement |->
             RMul(TiePosition(acc.first, acc.last), RDiv(tp.deltaD, CosRad(tp.theta))),
         first |-> acc.first, last |-> acc.last]

(***************************************************************************)
(* helpers.go: Smooth and SmoothN                                          *)
(***************************************************************************)
\* returns smoothed; smoothed[i + 1] is the code's smoothed[i], and the test
\* of the loop is on len(smoothed)
Smooth(data) ==
    LET len == Len(data) \div 2
    IN  [k \in 1..len |->
            LET i == k - 1
            IN  IF len >= i * 2 + 1
                THEN RDiv(RAdd(data[i * 2 + 1], data[i * 2 + 2]), R(2))
                ELSE data[i * 2 + 1]]

\* for i := 0; i < n; i++ { data = Smooth(data) }; returns data
RECURSIVE SmoothN(_, _)
SmoothN(n, data) == IF n <= 0 THEN data ELSE SmoothN(n - 1, Smooth(data))

\* mutant of CallerSlice: the assignment reaches the caller's slice
CallerSlice_Shared(data, local) == local

\* the caller's slice after a call that left its parameter as local: the
\* parameter is a copy of the slice header, and data = Smooth(data) assigns
\* the copy; no function stores into an element of its parameter
CallerSlice(data, local) == data

(***************************************************************************)
(* helpers.go: TerrainToPathXY                                             *)
(***************************************************************************)
\* mutant of PathLength: the height enters unsquared
PathLength_NoSquare(d, height) == Sqrt(RAdd(Pow2(d), RAbs(height)))

\* d2 = math.Sqrt(math.Pow(float64(d), 2) + math.Pow(height, 2))
PathLength(d, height) == Sqrt(RAdd(Pow2(d), Pow2(height)))

\* mutant of VerticalClearance: the height p1 of the first endpoint is left out
VerticalClearance_NoP1(offsetHeight, p1, terrainHeight) ==
    RSub(offsetHeight, terrainHeight)

\* verticalClearance := offsetHeight + p1 - terrainHeight
VerticalClearance(offsetHeight, p1, terrainHeight) ==
    RSub(RAdd(offsetHeight, p1), terrainHeight)

\* transformedX := math.Sin(theta) * verticalClearance
TransformedX(theta, verticalClearance) == RMul(Sin(theta), verticalClearance)

\* mutant of TransformedY: the sine taken for the cosine
TransformedY_Sin(theta, verticalClearance) == RMul(Sin(theta), verticalClearance)

\* transformedY := math.Cos(theta) * verticalClearance
TransformedY(theta, verticalClearance) == RMul(Cos(theta), verticalClearance)

\* mutant of ShiftX: the ground distance is shortened, not lengthened
ShiftX_Mul(theta, offsetDist) == RMul(offsetDist, Cos(theta))

\* shiftX := offsetDist / math.Cos(theta)
ShiftX(theta, offsetDist) == RDiv(offsetDist, Cos(theta))

\* mutant of NormalisedPoint: y keeps the sign of the clearance
NormalisedPoint_PosY(shiftX, transformedX, transformedY) ==
    <<RSub(shiftX, transformedX), transformedY>>

\* mutant of NormalisedPoint: the clearance is rotated the other way along x
NormalisedPoint_PlusX(shiftX, transformedX, transformedY) ==
    <<RAdd(shiftX, transformedX), RNeg(transformedY)>>

\* x[i], y[i] = shiftX-transformedX, -transformedY
NormalisedPoint(shiftX, transformedX, transformedY) ==
    <<RSub(shiftX, transformedX), RNeg(transformedY)>>

\* the body of the loop over the samples; i is the 0-based index of the code
PathXYSample(p1, theta, dh, dd, i, terrainHeight) ==
    LET offsetHeight == RMul(R(i), dh)
        offsetDist == RMul(dd, R(i))
        verticalClearance == VerticalClearance(offsetHeight, p1, terrainHeight)
    IN  NormalisedPoint(ShiftX(theta, offsetDist),
                        TransformedX(theta, verticalClearance),
                        TransformedY(theta, verticalClearance))

\* returns [x, y, d2]; x and y are 1-based sequences, x[i + 1] is the code's x[i]
TerrainToPathXY(p1, p2, d, terrain) ==
    LET height == RSub(p2, p1)
        theta == Atan2(height, d)
        n == Len(terrain)
        dh == RDiv(height, R(n - 1))
        dd == RDiv(d, R(n - 1))
    IN  [x |-> [k \in 1..n |-> PathXYSample(p1, theta, dh, dd, k - 1, terrain[k])[1]],
         y |-> [k \in 1..n |-> PathXYSample(p1, theta, dh, dd, k - 1, terrain[k])[2]],
         d2 |-> PathLength(d, height)]

(***************************************************************************)
(* helpers.go: UnNormalisePoint                                            *)
(***************************************************************************)
\* mutant of UnRotate: the rotation of y is added to x
UnRotate_SumX(x1, y1, x2, y2, p1) == <<RAdd(x1, x2), RAdd(RAdd(y1, y2), p1)>>

\* x3 := x1 - x2 ; y3 := y1 + y2 + p1
UnRotate(x1, y1, x2, y2, p1) == <<RSub(x1, x2), RAdd(RAdd(y1, y2), p1)>>

UnNormalisePoint(p1, p2, d, x, y) ==
    LET height == RSub(p2, p1)
        theta == Atan2(height, d)
        x1 == RMul(Cos(theta), x)
        y1 == RMul(Sin(theta), x)
        x2 == RMul(Sin(theta), y)
        y2 == RMul(Cos(theta), y)
    IN  UnRotate(x1, y1, x2, y2, p1)

(***************************************************************************)
(* rf.go: FresnelPoint and FresnelImpingementMax                           *)
(***************************************************************************)
\* the speed of light in air in meters per second (2.998e+8)
C == 299800000

\* const FresnelMinDistanceWavelengthRadio = 0.1
FresnelMinDistanceWavelengthRadio == Rat(1, 10)

\* Wavelength(C / freq)
FrequencyToWavelength(freq) == RDiv(R(C), freq)

\* mutant of FresnelPointInvalid: d2 is not looked at
FresnelPointInvalid_OnlyD1(d1, d2, wavelength) ==
    RLt(RMul(d1, FresnelMinDistanceWavelengthRadio), wavelength)

\* the sanity check of FresnelPoint: distance >> wavelength
FresnelPointInvalid(d1, d2, wavelength) ==
    \/ RLt(RMul(d1, FresnelMinDistanceWavelengthRadio), wavelength)
    \/ RLt(RMul(d2, FresnelMinDistanceWavelengthRadio), wavelength)

\* returns [radius, err]; err is TRUE for a non-nil error
FresnelPoint(d1, d2, freq, order) ==
    LET wavelength == FrequencyToWavelength(freq)
    IN  IF FresnelPointInvalid(d1, d2, wavelength)
        THEN [radius |-> Zero, err |-> TRUE]
        ELSE [radius |-> Sqrt(RDiv(RMul(RMul(RMul(R(order), wavelength), d1), d2),
                                   RAdd(d1, d2))),
              err |-> FALSE]

\* mutant of Impingement: no upper clamp
Impingement_NoUpperClamp(yi, fresnelZone) ==
    IF RLt(yi, RDiv(RNeg(fresnelZone), R(2))) THEN Zero
    ELSE RDiv(RAdd(yi, RDiv(fresnelZone, R(2))), fresnelZone)

\* mutant of Impingement: the interpolation starts at the line of sight
Impingement_NoHalf(yi, fresnelZone) ==
    IF RLt(RDiv(fresnelZone, R(2)), yi) THEN R(1)
    ELSE IF RLt(yi, RDiv(RNeg(fresnelZone), R(2))) THEN Zero
    ELSE RDiv(yi, fresnelZone)

\* "Calculate impingement": the fraction of the zone a sample at height yi blocks
Impingement(yi, fresnelZone) ==
    IF RLt(RDiv(fresnelZone, R(2)), yi) THEN R(1)
    ELSE IF RLt(yi, RDiv(RNeg(fresnelZone), R(2))) THEN Zero
    ELSE RDiv(RAdd(yi, RDiv(fresnelZone, R(2))), fresnelZone)

\* mutant of RecordMax: the comparison is turned around
RecordMax_Less(acc, impingement, d1) ==
    IF RLt(impingement, acc.maxImpingement)
    THEN [acc EXCEPT !.maxImpingement = impingement, !.point = d1]
    ELSE acc

\* "Record max": acc is [maxImpingement, point, samples]
RecordMax(acc, impingement, d1) ==
    IF RLt(acc.maxImpingement, impingement)
    THEN [acc EXCEPT !.maxImpingement = impingement, !.point = d1]
    ELSE acc

\* mutant of ImpingementScan: the first invalid sample ends the scan
RECURSIVE ImpingementScan_Abort(_, _, _, _, _, _)
ImpingementScan_Abort(x, y, l, f, i, acc) ==
    IF ~(i < Len(x) - 1) THEN acc
    ELSE LET d1 == x[i + 1]
             d2 == RSub(l, d1)
             fp == FresnelPoint(d1, d2, f, 1)
             impingement == Impingement(y[i + 1], fp.radius)
             seen == [i |-> i, skipped |-> fp.err, fresnelZone |-> fp.radius,
                      impingement |-> IF fp.err THEN Zero ELSE impingement]
             logged == [acc EXCEPT !.samples = Append(@, seen)]
         IN  IF fp.err
             THEN logged
             ELSE ImpingementScan_Abort(x, y, l, f, i + 1,
                                        RecordMax(logged, impingement, d1))

\* the loop of FresnelImpingementMax from the 0-based index i on; acc.samples
\* records, per interior sample, what the loop body computed for it
RECURSIVE ImpingementScan(_, _, _, _, _, _)
ImpingementScan(x, y, l, f, i, acc) ==
    IF ~(i < Len(x) - 1) THEN acc
    ELSE LET d1 == x[i + 1]
             d2 == RSub(l, d1)
             fp == FresnelPoint(d1, d2, f, 1)
             impingement == Impingement(y[i + 1], fp.radius)
             seen == [i |-> i, skipped |-> fp.err, fresnelZone |-> fp.radius,
                      impingement |-> IF fp.err THEN Zero ELSE impingement]
             logged == [acc EXCEPT !.samples = Append(@, seen)]
         IN  IF fp.err
             THEN ImpingementScan(x, y, l, f, i + 1, logged)
             ELSE ImpingementScan(x, y, l, f, i + 1, RecordMax(logged, impingement, d1))

\* mutant of InitialResult: the fallback point is the first endpoint
InitialResult_AtStart(l) ==
    [maxImpingement |-> Zero, point |-> Zero, samples |-> <<>>]

\* maxImpingement, point = 0.0, Distance(l/2)
InitialResult(l) ==
    [maxImpingement |-> Zero, point |-> RDiv(l, R(2)), samples |-> <<>>]

\* returns [x, y, l, maxImpingement, point, samples]
FresnelImpingementMax(p1, p2, d, f, terrain) ==
    LET n == TerrainToPathXY(p1, p2, d, terrain)
        r == ImpingementScan(n.x, n.y, n.d2, f, 1, InitialResult(n.d2))
    IN  [x |-> n.x, y |-> n.y, l |-> n.d2, maxImpingement |-> r.maxImpingement,
         point |-> r.point, samples |-> r.samples]

(***************************************************************************)
(* rf.go: the Fresnel-Kirchoff diffraction parameter and loss              *)
(***************************************************************************)
\* returns [v, err]; err is the named result the code never assigns
CalculateFresnelKirckoffDiffractionParam(freq, d1, d2, h) ==
    LET wavelength == FrequencyToWavelength(freq)
    IN  [v |-> RMul(h, Sqrt(RDiv(RMul(R(2), RAdd(d1, d2)),
                                 RMul(wavelength, RMul(d1, d2))))),
         err |-> FALSE]

\* math.Log10 is not computed: the term stands for its value
Log10(q) == [log10 |-> q]

\* mutant of LossApproxInvalid: v < -0.7, which lets NaN through
LossApproxInvalid_Less(v) == RLt(v, Rat(-7, 10))

\* !(v >= -0.7)
LossApproxInvalid(v) == ~RLe(Rat(-7, 10), v)

\* returns [loss, err]; a loss 6.9 + 20*log10(q) is the term [plus, times, log10]
CalculateFresnelKirchoffLossApprox(v) ==
    IF LossApproxInvalid(v)
    THEN [loss |-> Zero, err |-> TRUE]
    ELSE LET u == RSub(v, Rat(1, 10))
             q == RAdd(Sqrt(RAdd(Pow2(u), R(1))), u)
         IN  [loss |-> [plus |-> Rat(69, 10), times |-> R(20)] @@ Log10(q),
              err |-> FALSE]

(***************************************************************************)
(* rf.go: CalculateFoliageLoss.  A frequency is in MHz in this section:    *)
(* 95 GHz in Hz is beyond the integers of the model checker                *)
(***************************************************************************)
\* 230 * MHz and 95 * GHz
WeissbergerMinFreq == R(230)
WeissbergerMaxFreq == R(95000)
\* 0 * M and 400 * M
WeissbergerMinDist == R(0)
WeissbergerMaxDist == R(400)
\* GHz, for freq/GHz
GHzInMHz == R(1000)

\* math.Pow with a fractional exponent is not computed: the term stands for
\* its value
Pow(base, exponent) == [base |-> base, exponent |-> exponent]

\* returns [loss, err]; a loss is the term [coefficient, freqPow, depthPow] of
\* the product the code computes
CalculateFoliageLoss(freq, depth) ==
    IF RLt(freq, WeissbergerMinFreq) \/ RLt(WeissbergerMaxFreq, freq)
    THEN [loss |-> Zero, err |-> TRUE]
    ELSE IF RLt(depth, WeissbergerMinDist) \/ RLt(WeissbergerMaxDist, depth)
    THEN [loss |-> Zero, err |-> TRUE]
    ELSE IF RLt(Zero, depth) /\ RLe(depth, R(14))
    THEN [loss |-> [coefficient |-> Rat(45, 100),
                    freqPow |-> Pow(RDiv(freq, GHzInMHz), Rat(284, 1000)),
                    depthPow |-> Pow(depth, R(1))],
          err |-> FALSE]
    ELSE IF RLt(R(14), depth) /\ RLe(depth, R(400))
    THEN [loss |-> [coefficient |-> Rat(133, 100),
                    freqPow |-> Pow(RDiv(freq, GHzInMHz), Rat(284, 1000)),
                    depthPow |-> Pow(depth, Rat(588, 1000))],
          err |-> FALSE]
    ELSE [loss |-> Zero, err |-> TRUE]

(***************************************************************************)
(* rf.go: the Bullington Figure 12 method                                  *)
(***************************************************************************)
\* math.Pi and -math.Pi/2 as angles
Pi == [y |-> Zero, x |-> R(-1), r |-> R(1)]
NegHalfPi == [y |-> R(-1), x |-> Zero, r |-> R(1)]

\* a - b on angles: the direction of a turned back by b
AngleSub(a, b) ==
    [y |-> RSub(RMul(a.y, b.x), RMul(a.x, b.y)),
     x |-> RAdd(RMul(a.x, b.x), RMul(a.y, b.y)),
     r |-> RMul(a.r, b.r)]

\* where in (-Pi, Pi] an angle returned by Atan2 lies: 0 for (-Pi, -Pi/2),
\* 1 for -Pi/2, 2 for (-Pi/2, 0), 3 for 0, 4 for (0, Pi/2), 5 for Pi/2,
\* 6 for (Pi/2, Pi), 7 for Pi
Sector(a) ==
    IF RLt(a.y, Zero)
    THEN (IF RLt(a.x, Zero) THEN 0 ELSE IF a.x = Zero THEN 1 ELSE 2)
    ELSE IF a.y = Zero
    THEN (IF RLt(a.x, Zero) THEN 7 ELSE 3)
    ELSE (IF RLt(Zero, a.x) THEN 4 ELSE IF a.x = Zero THEN 5 ELSE 6)

\* a < b on angles returned by Atan2 (false when either is NaN)
AngleLt(a, b) ==
    /\ ~IsNaN(a.x) /\ ~IsNaN(a.y) /\ ~IsNaN(b.x) /\ ~IsNaN(b.y)
    /\ \/ Sector(a) < Sector(b)
       \/ /\ Sector(a) = Sector(b)
          /\ RLt(RMul(a.y, b.x), RMul(a.x, b.y))

\* mutant of MaxAngle: the smaller angle is kept
MaxAngle_Min(max, theta) == IF AngleLt(theta, max) THEN theta ELSE max

\* if theta > max { max = theta }
MaxAngle(max, theta) == IF AngleLt(max, theta) THEN theta ELSE max

\* the loop of findBullingtonFigure12Angles from the 0-based index i on
RECURSIVE HorizonScan(_, _, _, _, _)
HorizonScan(x, y, d, i, max) ==
    IF ~(i < Len(x) - 1) THEN max
    ELSE HorizonScan(x, y, d, i + 1,
             [theta1 |-> MaxAngle(max.theta1, Atan2(y[i + 1], x[i + 1])),
              theta2 |-> MaxAngle(max.theta2, Atan2(y[i + 1], RSub(d, x[i + 1])))])

\* returns [theta1, theta2]
findBullingtonFigure12Angles(x, y, d) ==
    HorizonScan(x, y, d, 1, [theta1 |-> NegHalfPi, theta2 |-> NegHalfPi])

\* mutant of solveBullingtonFigureTwelveDist: C is taken opposite thetab
solveBullingtonFigureTwelveDist_SinB(thetab, thetac, l) ==
    LET thetaa == AngleSub(AngleSub(Pi, thetab), thetac)
        r == RDiv(l, Sin(thetaa))
        sideC == RMul(r, Sin(thetab))
    IN  [dist |-> RMul(Cos(thetab), sideC), height |-> RMul(Sin(thetab), sideC)]

\* returns [dist, height]; the code has no error result and no guard on the
\* division. Where the sine is zero here, float64 has a sine of about 1e-16
\* and divides by it: the infinities and NaN of this model stand for the huge
\* (or cancelled) values the code then returns
solveBullingtonFigureTwelveDist(thetab, thetac, l) ==
    LET thetaa == AngleSub(AngleSub(Pi, thetab), thetac)
        r == RDiv(l, Sin(thetaa))
        sideC == RMul(r, Sin(thetac))
    IN  [dist |-> RMul(Cos(thetab), sideC), height |-> RMul(Sin(thetab), sideC)]

\* mutant of BullingtonFigure12Method: d2 is the whole path
BullingtonFigure12Method_WholePath(p1, p2, d, terrain) ==
    LET n == TerrainToPathXY(p1, p2, d, terrain)
        a == findBullingtonFigure12Angles(n.x, n.y, n.d2)
        k == solveBullingtonFigureTwelveDist(a.theta1, a.theta2, n.d2)
    IN  [x |-> n.x, y |-> n.y, l |-> n.d2, theta1 |-> a.theta1, theta2 |-> a.theta2,
         d1 |-> k.dist, d2 |-> n.d2, height |-> k.height]

\* returns [d1, d2, height] and, for the record, x, y, l and the two angles
BullingtonFigure12Method(p1, p2, d, terrain) ==
    LET n == TerrainToPathXY(p1, p2, d, terrain)
        a == findBullingtonFigure12Angles(n.x, n.y, n.d2)
        k == solveBullingtonFigureTwelveDist(a.theta1, a.theta2, n.d2)
    IN  [x |-> n.x, y |-> n.y, l |-> n.d2, theta1 |-> a.theta1, theta2 |-> a.theta2,
         d1 |-> k.dist, d2 |-> RSub(n.d2, k.dist), height |-> k.height]

(***************************************************************************)
(* The callers' inputs.  Every path has an integer length, so that the     *)
(* rotation is exact: (p2 - p1, d) is a multiple of (0, 1) or (3, 4).      *)
(***************************************************************************)
Paths == { <<1, 1, 2>>, <<1, 1, 50>>, <<0, 3, 4>>, <<3, 0, 4>>, <<1, 4, 4>>,
           <<0, 0, 50>>, <<0, 30, 40>> }
Heights == { -100, 0, 3 }
Freqs == { 433000000, 149900000 }
Profiles == UNION { [1..n -> Heights] : n \in 2..MaxLen }

\* the arguments of the calls on numbers
MaxOrder == 2
Dists == { -5, 0, 6, 7, 19, 20, 21, 50 }
Lengths == { 0, 4, 10 }
Directions == ((-1..1) \X (-1..1) \ {<<0, 0>>}) \cup { <<3, 4>>, <<-1, 3>>, <<1, 2>> }
Angles == { Atan2(R(a[1]), R(a[2])) : a \in Directions }
Params == { NaN, <<-1, 0>>, <<1, 0>>, Rat(-71, 100), Rat(-7, 10), Rat(-69, 100),
            Rat(-12, 1000), R(-1), Zero, R(1) }

\* the arguments of CalculateFoliageLoss: frequencies in MHz, depths in m
FoliageFreqs == { 229, 230, 433, 95000, 95001 }
Depths == { -1, 0, 1, 14, 15, 400, 401 }

\* the numbers of passes of SmoothN
MaxPasses == 2

Null == <<>>

VARIABLES p1, p2, d, terrain,        \* the caller's path and terrain profile
          call,                      \* the function called last
          f,                         \* FresnelImpingementMax: its frequency
          x, y, l,                   \* TerrainToPathXY: its three results
          idx, x3, y3,               \* UnNormalisePoint: the sample, its results
          maxImpingement, point,     \* FresnelImpingementMax: its results
          samples,                   \* FresnelImpingementMax: its loop, per sample
          theta1, theta2,            \* BullingtonFigure12Method: its horizon angles
          knife,                     \* BullingtonFigure12Method: [d1, d2, height]
          args, ret,                 \* a call on numbers: its arguments and result
          err,                       \* whether the last call returned an error
          fk,                        \* TerrainToFresnelKirchoff: its results
          smoothed,                  \* Smooth, SmoothN: the slice returned
          panicked                   \* whether the last call ended in a panic

inputs == <<p1, p2, d, terrain>>
bull == <<theta1, theta2, knife>>
calc == <<args, ret>>
rest == <<fk, smoothed, panicked>>
terrainCalls == <<f, x, y, l, idx, x3, y3, maxImpingement, point, samples, bull>>
vars == <<p1, p2, d, terrain, call, f, x, y, l, idx, x3, y3,
          maxImpingement, point, samples, theta1, theta2, knife, args, ret, err,
          fk, smoothed, panicked>>

Init ==
    /\ \E path \in Paths : p1 = R(path[1]) /\ p2 = R(path[2]) /\ d = R(path[3])
    /\ \E t \in Profiles : terrain = [k \in 1..Len(t) |-> R(t[k])]
    /\ call = "none"
    /\ f = Null /\ x = Null /\ y = Null /\ l = Null
    /\ idx = Null /\ x3 = Null /\ y3 = Null
    /\ maxImpingement = Null /\ point = Null /\ samples = Null
    /\ theta1 = Null /\ theta2 = Null /\ knife = Null
    /\ args = Null /\ ret = Null
    /\ err = FALSE
    /\ fk = Null /\ smoothed = Null /\ panicked = FALSE

CallTerrainToPathXY ==
    /\ call = "none"
    /\ \E r \in {TerrainToPathXY(p1, p2, d, terrain)} :
           x' = r.x /\ y' = r.y /\ l' = r.d2
    /\ call' = "TerrainToPathXY"
    /\ err' = FALSE
    /\ UNCHANGED <<inputs, f, idx, x3, y3, maxImpingement, point, samples, bull, calc, rest>>

\* the normalised sample i (0-based) is reverted to a real world point
CallUnNormalisePoint ==
    /\ call = "TerrainToPathXY"
    /\ \E i \in 0..(Len(terrain) - 1) :
          \E r \in {UnNormalisePoint(p1, p2, d, x[i + 1], y[i + 1])} :
              idx' = i /\ x3' = r[1] /\ y3' = r[2]
    /\ call' = "UnNormalisePoint"
    /\ err' = FALSE
    /\ UNCHANGED <<inputs, f, x, y, l, maxImpingement, point, samples, bull, calc, rest>>

CallFresnelImpingementMax ==
    /\ call = "none"
    /\ \E freq \in Freqs :
          \E r \in {FresnelImpingementMax(p1, p2, d, R(freq), terrain)} :
              /\ f' = R(freq)
              /\ x' = r.x /\ y' = r.y /\ l' = r.l
              /\ maxImpingement' = r.maxImpingement
              /\ point' = r.point
              /\ samples' = r.samples
    /\ call' = "FresnelImpingementMax"
    /\ err' = FALSE
    /\ UNCHANGED <<inputs, idx, x3, y3, bull, calc, rest>>

\* none of its results is an error: the function has no error result
CallBullingtonFigure12Method ==
    /\ call = "none"
    /\ \E r \in {BullingtonFigure12Method(p1, p2, d, terrain)} :
          /\ x' = r.x /\ y' = r.y /\ l' = r.l
          /\ theta1' = r.theta1 /\ theta2' = r.theta2
          /\ knife' = [d1 |-> r.d1, d2 |-> r.d2, height |-> r.height]
    /\ call' = "BullingtonFigure12Method"
    /\ err' = FALSE
    /\ UNCHANGED <<inputs, f, idx, x3, y3, maxImpingement, point, samples, calc, rest>>

\* TerrainToPath returns four values and no error
CallTerrainToPath ==
    /\ call = "none"
    /\ ret' = TerrainToPath(p1, p2, d, terrain)
    /\ call' = "TerrainToPath"
    /\ err' = FALSE
    /\ UNCHANGED <<inputs, terrainCalls, args, rest>>

\* the profile is the data smoothed
CallSmooth ==
    /\ call = "none"
    /\ \E r \in {Smooth(terrain)} :
          /\ smoothed' = r
          /\ terrain' = CallerSlice(terrain, terrain)
    /\ call' = "Smooth"
    /\ err' = FALSE
    /\ UNCHANGED <<p1, p2, d, terrainCalls, calc, fk, panicked>>

CallSmoothN ==
    /\ call = "none"
    /\ \E n \in 0..MaxPasses :
          \E r \in {SmoothN(n, terrain)} :
              /\ args' = [n |-> n]
              /\ smoothed' = r
              /\ terrain' = CallerSlice(terrain, r)
    /\ call' = "SmoothN"
    /\ err' = FALSE
    /\ UNCHANGED <<p1, p2, d, terrainCalls, ret, fk, panicked>>

Next ==
    \/ CallTerrainToPathXY
    \/ CallUnNormalisePoint
    \/ CallFresnelImpingementMax
    \/ CallBullingtonFigure12Method
    \/ CallTerrainToPath
    \/ CallSmooth
    \/ CallSmoothN

Spec == Init /\ [][Next]_vars

(***************************************************************************)
(* The functions on numbers, called on their own                           *)
(***************************************************************************)
InitCalc ==
    /\ p1 = Null /\ p2 = Null /\ d = Null /\ terrain = Null
    /\ call = "none"
    /\ f = Null /\ x = Null /\ y = Null /\ l = Null
    /\ idx = Null /\ x3 = Null /\ y3 = Null
    /\ maxImpingement = Null /\ point = Null /\ samples = Null
    /\ theta1 = Null /\ theta2 = Null /\ knife = Null
    /\ args = Null /\ ret = Null
    /\ err = FALSE
    /\ fk = Null /\ smoothed = Null /\ panicked = FALSE

\* the solver has no error result
CallsolveBullingtonFigureTwelveDist ==
    /\ call = "none"
    /\ \E a, b \in Angles, len \in Lengths :
          /\ args' = [thetab |-> a, thetac |-> b, l |-> R(len)]
          /\ ret' = solveBullingtonFigureTwelveDist(a, b, R(len))
    /\ call' = "solveBullingtonFigureTwelveDist"
    /\ err' = FALSE
    /\ UNCHANGED <<inputs, terrainCalls, rest>>

CallFresnelPoint ==
    /\ call = "none"
    /\ \E a, b \in Dists, freq \in Freqs, order \in 1..MaxOrder :
          \E r \in {FresnelPoint(R(a), R(b), R(freq), order)} :
              /\ args' = [d1 |-> R(a), d2 |-> R(b), freq |-> R(freq), order |-> order]
              /\ ret' = r.radius
              /\ err' = r.err
    /\ call' = "FresnelPoint"
    /\ UNCHANGED <<inputs, terrainCalls, rest>>

CallCalculateFresnelKirckoffDiffractionParam ==
    /\ call = "none"
    /\ \E a, b \in Dists, freq \in Freqs, h \in Heights :
          \E r \in {CalculateFresnelKirckoffDiffractionParam(R(freq), R(a), R(b), R(h))} :
              /\ args' = [freq |-> R(freq), d1 |-> R(a), d2 |-> R(b), h |-> R(h)]
              /\ ret' = r.v
              /\ err' = r.err
    /\ call' = "CalculateFresnelKirckoffDiffractionParam"
    /\ UNCHANGED <<inputs, terrainCalls, rest>>

CallCalculateFresnelKirchoffLossApprox ==
    /\ call = "none"
    /\ \E v \in Params :
          \E r \in {CalculateFresnelKirchoffLossApprox(v)} :
              /\ args' = [v |-> v]
              /\ ret' = r.loss
              /\ err' = r.err
    /\ call' = "CalculateFresnelKirchoffLossApprox"
    /\ UNCHANGED <<inputs, terrainCalls, rest>>

CallCalculateFoliageLoss ==
    /\ call = "none"
    /\ \E freq \in FoliageFreqs, depth \in Depths :
          \E r \in {CalculateFoliageLoss(R(freq), R(depth))} :
              /\ args' = [freq |-> R(freq), depth |-> R(depth)]
              /\ ret' = r.loss
              /\ err' = r.err
    /\ call' = "CalculateFoliageLoss"
    /\ UNCHANGED <<inputs, terrainCalls, rest>>

\* log.Panicf("Raleigh fading not yet implemented"): the call does not return
CallCalculateRaleighFading ==
    /\ call = "none"
    /\ \E freq \in Freqs : args' = [freq |-> R(freq)]
    /\ panicked' = TRUE
    /\ call' = "CalculateRaleighFading"
    /\ UNCHANGED <<inputs, terrainCalls, ret, err, fk, smoothed>>

\* log.Panicf("Rican fading not yet implemented")
CallCalculateRicanFading ==
    /\ call = "none"
    /\ \E freq \in Freqs : args' = [freq |-> R(freq)]
    /\ panicked' = TRUE
    /\ call' = "CalculateRicanFading"
    /\ UNCHANGED <<inputs, terrainCalls, ret, err, fk, smoothed>>

\* log.Panicf("Weibull fading not yet implemented")
CallCalculateWeibullFading ==
    /\ call = "none"
    /\ \E freq \in Freqs : args' = [freq |-> R(freq)]
    /\ panicked' = TRUE
    /\ call' = "CalculateWeibullFading"
    /\ UNCHANGED <<inputs, terrainCalls, ret, err, fk, smoothed>>

NextCalc ==
    \/ CallsolveBullingtonFigureTwelveDist
    \/ CallFresnelPoint
    \/ CallCalculateFresnelKirckoffDiffractionParam
    \/ CallCalculateFresnelKirchoffLossApprox
    \/ CallCalculateFoliageLoss
    \/ CallCalculateRaleighFading
    \/ CallCalculateRicanFading
    \/ CallCalculateWeibullFading

SpecCalc == InitCalc /\ [][NextCalc]_vars

(***************************************************************************)
(* Callers that pass a profile of fewer than two samples or a path         *)
(* distance that is not positive                                           *)
(***************************************************************************)
ShortProfiles == UNION { [1..n -> Heights] : n \in 0..1 }
NonPositivePaths == { <<0, 0, 0>>, <<1, 1, -50>>, <<0, 3, -4>> }

InitMalformed ==
    /\ \E path \in Paths \cup NonPositivePaths, t \in Profiles \cup ShortProfiles :
          /\ path \in NonPositivePaths \/ t \in ShortProfiles
          /\ p1 = R(path[1]) /\ p2 = R(path[2]) /\ d = R(path[3])
          /\ terrain = [k \in 1..Len(t) |-> R(t[k])]
    /\ call = "none"
    /\ f = Null /\ x = Null /\ y = Null /\ l = Null
    /\ idx = Null /\ x3 = Null /\ y3 = Null
    /\ maxImpingement = Null /\ point = Null /\ samples = Null
    /\ theta1 = Null /\ theta2 = Null /\ knife = Null
    /\ args = Null /\ ret = Null
    /\ err = FALSE
    /\ fk = Null /\ smoothed = Null /\ panicked = FALSE

SpecMalformed == InitMalformed /\ [][Next]_vars

(***************************************************************************)
(* The Fresnel-Kirchhoff reducer, on the paths and heights of its test     *)
(***************************************************************************)
FKPaths == { <<1, 1, 2>>, <<0, 3, 4>>, <<3, 0, 4>> }
FKHeights == { Zero, Rat(1, 2), R(1), Rat(3, 2) }
FKProfiles == UNION { [1..n -> FKHeights] : n \in 2..MaxLen }

InitFK ==
    /\ \E path \in FKPaths : p1 = R(path[1]) /\ p2 = R(path[2]) /\ d = R(path[3])
    /\ terrain \in FKProfiles
    /\ call = "none"
    /\ f = Null /\ x = Null /\ y = Null /\ l = Null
    /\ idx = Null /\ x3 = Null /\ y3 = Null
    /\ maxImpingement = Null /\ point = Null /\ samples = Null
    /\ theta1 = Null /\ theta2 = Null /\ knife = Null
    /\ args = Null /\ ret = Null
    /\ err = FALSE
    /\ fk = Null /\ smoothed = Null /\ panicked = FALSE

\* the reducer returns two numbers and no error
CallTerrainToFresnelKirchoff ==
    /\ call = "none"
    /\ fk' = TerrainToFresnelKirchoff(p1, p2, d, terrain)
    /\ call' = "TerrainToFresnelKirchoff"
    /\ err' = FALSE
    /\ UNCHANGED <<inputs, terrainCalls, calc, smoothed, panicked>>

NextFK == CallTerrainToFresnelKirchoff

SpecFK == InitFK /\ [][NextFK]_vars

(***************************************************************************)
(* Properties                                                              *)
(***************************************************************************)
N == Len(terrain)
Normalised == call \in {"TerrainToPathXY", "FresnelImpingementMax"}
\* the height of the line of sight over sample i (0-based): p1 + i*(p2-p1)/(n-1)
RefHeight(i) == RAdd(p1, RDiv(RMul(R(i), RSub(p2, p1)), R(N - 1)))
\* the ground distance of sample i (0-based): i*d/(n-1)
RefDist(i) == RDiv(RMul(R(i), d), R(N - 1))
CosTheta == Cos(Atan2(RSub(p2, p1), d))
SinTheta == Sin(Atan2(RSub(p2, p1), d))
IsInput(a, b, c, t) ==
    /\ p1 = R(a) /\ p2 = R(b) /\ d = R(c)
    /\ terrain = [k \in 1..Len(t) |-> R(t[k])]

\* C1: reverting a normalised sample with UnNormalisePoint gives back the
\* absolute point it came from: (i*d/(n-1), terrain[i]).
C1_RoundTrip ==
    call = "UnNormalisePoint" =>
        /\ x3 = RefDist(idx)
        /\ y3 = terrain[idx + 1]

\* C1 witness: an interior sample off the line of sight of a sloped path was
\* normalised and reverted.
C1_Witness ==
    /\ call = "UnNormalisePoint"
    /\ p1 # p2
    /\ idx \in 1..(N - 2)
    /\ y[idx + 1] # Zero

C4_XFormula ==
    call = "TerrainToPathXY" =>
        /\ \A k \in 1..N :
              x[k] = RSub(RDiv(RefDist(k - 1), CosTheta),
                          RMul(SinTheta, RSub(RefHeight(k - 1), terrain[k])))
        /\ IsInput(0, 3, 4, <<0, 0, 0>>) => x = <<Zero, Rat(8, 5), Rat(16, 5)>>
        /\ IsInput(1, 4, 4, <<0, 0, 0>>) => x = <<Rat(-3, 5), R(1), Rat(13, 5)>>

\* C4 witness: the flat profile under the raised rising path was normalised.
C4_Witness ==
    /\ call = "TerrainToPathXY"
    /\ IsInput(1, 4, 4, <<0, 0, 0>>)

C6_Monotone ==
    call = "TerrainToPathXY" =>
        \A k \in 1..(N - 1) : RLe(x[k], x[k + 1])

\* C6 amended: x[i] <= x[i+1] exactly when
\* (p2-p1)*(terrain[i+1]-terrain[i]) >= -d*d/(n-1); so x is non-decreasing on
\* every level path, and on a sloped one unless the terrain steps that far
\* against the slope.
C6_MonotoneIff ==
    call = "TerrainToPathXY" =>
        /\ \A k \in 1..(N - 1) :
              RLe(x[k], x[k + 1]) <=>
                  RLe(RNeg(RDiv(RMul(d, d), R(N - 1))),
                      RMul(RSub(p2, p1), RSub(terrain[k + 1], terrain[k])))
        /\ p1 = p2 => \A k \in 1..(N - 1) : RLe(x[k], x[k + 1])

\* C6 witness: a sloped path over terrain that is not flat, normalised to
\* non-decreasing positions.
C6_Witness ==
    /\ call = "TerrainToPathXY"
    /\ p1 # p2
    /\ \E k \in 1..(N - 1) : terrain[k] # terrain[k + 1]
    /\ \A k \in 1..(N - 1) : RLe(x[k], x[k + 1])

\* C7: the path length is sqrt(d^2 + (p2-p1)^2) whatever the terrain, hence
\* l >= d and l >= |p2-p1|; it is 5 for d=4 and a height difference of 3.
C7_PathLength ==
    call = "TerrainToPathXY" =>
        /\ RLe(Zero, l)
        /\ RMul(l, l) = RAdd(RMul(d, d), RMul(RSub(p2, p1), RSub(p2, p1)))
        /\ RLe(d, l)
        /\ RLe(RAbs(RSub(p2, p1)), l)
        /\ (d = R(4) /\ RAbs(RSub(p2, p1)) = R(3)) => l = R(5)

\* C7 witness: a falling path of d=4 and height difference 3 was measured
\* over terrain that is not flat.
C7_Witness ==
    /\ call = "TerrainToPathXY"
    /\ d = R(4) /\ RSub(p2, p1) = R(-3)
    /\ terrain[1] # terrain[2]
    /\ l = R(5)

\* C8: the maxImpingement FresnelImpingementMax returns lies in [0, 1], for
\* every path, frequency and profile, skipped samples or not.
C8_Range ==
    call = "FresnelImpingementMax" =>
        RLe(Zero, maxImpingement) /\ RLe(maxImpingement, R(1))

\* C8 witness: a scan that skipped a sample and returned a fraction strictly
\* inside (0, 1) other than one half.
C8_Witness ==
    /\ call = "FresnelImpingementMax"
    /\ \E j \in 1..Len(samples) : samples[j].skipped
    /\ RLt(Zero, maxImpingement) /\ RLt(maxImpingement, R(1))
    /\ maxImpingement # Half

\* C9: a valid interior sample gets 1.0 when y[i] > r/2, 0.0 when y[i] < -r/2
\* and (y[i] + r/2)/r in between; terrain on the line of sight counts 0.5.
C9_PerSampleRule ==
    call = "FresnelImpingementMax" =>
        \A j \in 1..Len(samples) :
            LET yi == y[samples[j].i + 1]
                r == samples[j].fresnelZone
                v == samples[j].impingement
            IN  ~samples[j].skipped =>
                    /\ RLt(Zero, r)
                    /\ RLt(RDiv(r, R(2)), yi) => v = R(1)
                    /\ RLt(yi, RNeg(RDiv(r, R(2)))) => v = Zero
                    /\ (RLe(yi, RDiv(r, R(2))) /\ RLe(RNeg(RDiv(r, R(2))), yi))
                          => RMul(v, r) = RAdd(yi, RDiv(r, R(2)))
                    /\ yi = Zero => v = Half

\* C9 witness: one scan met all three cases, and a sample on the line of sight.
C9_Witness ==
    /\ call = "FresnelImpingementMax"
    /\ \E a, b, c \in 1..Len(samples) :
          /\ ~samples[a].skipped /\ ~samples[b].skipped /\ ~samples[c].skipped
          /\ RLt(RDiv(samples[a].fresnelZone, R(2)), y[samples[a].i + 1])
          /\ RLt(y[samples[b].i + 1], RNeg(RDiv(samples[b].fresnelZone, R(2))))
          /\ y[samples[c].i + 1] = Zero

\* the level 50 m path at 433 MHz whose midpoint sample lies on the line of
\* sight, every other sample 100 m below it
MidpointOnLineOfSight ==
    /\ call = "FresnelImpingementMax"
    /\ f = R(433000000)
    /\ p1 = Zero /\ p2 = Zero /\ d = R(50)
    /\ N % 2 = 1
    /\ \A k \in 1..N :
          terrain[k] = IF k = (N + 1) \div 2 THEN Zero ELSE R(-100)

\* C10 as stated: with the midpoint sample on the line of sight the scanner
\* returns maxImpingement = 1.0.
C10_MidpointIsFull == MidpointOnLineOfSight => maxImpingement = R(1)

\* C10 amended: with the midpoint sample on the line of sight the scanner
\* returns maxImpingement = 0.5, at the midpoint (25 m).
C10_MidpointIsHalf ==
    MidpointOnLineOfSight => maxImpingement = Half /\ point = R(25)

\* C10 witness: the five-sample profile of the "50% impingement" test was
\* scanned.
C10_Witness == MidpointOnLineOfSight /\ N = 5

\* the interior samples a scan did not skip, and the scan's wavelength
ValidSamples == { j \in 1..Len(samples) : ~samples[j].skipped }
Wavelength == RDiv(R(C), f)

\* C11: a sample for which FresnelPoint fails (d1 or d2 below 10 wavelengths,
\* negative ones included) is skipped and the scan goes on: every interior
\* sample is visited, and the result is the one of the valid samples alone,
\* their largest fraction at the first sample that reaches it.
C11_SkipInvalid ==
    call = "FresnelImpingementMax" =>
        /\ Len(samples) = N - 2
        /\ \A j \in 1..Len(samples) :
              /\ samples[j].i = j
              /\ samples[j].skipped <=>
                    \/ RLt(x[j + 1], RMul(R(10), Wavelength))
                    \/ RLt(RSub(l, x[j + 1]), RMul(R(10), Wavelength))
              /\ (RLt(x[j + 1], Zero) \/ RLt(l, x[j + 1])) => samples[j].skipped
        /\ \A j \in ValidSamples : RLe(samples[j].impingement, maxImpingement)
        /\ IF maxImpingement = Zero
           THEN point = RDiv(l, R(2))
           ELSE \E j \in ValidSamples :
                   /\ samples[j].impingement = maxImpingement
                   /\ point = x[j + 1]
                   /\ \A k \in ValidSamples :
                         k < j => RLt(samples[k].impingement, maxImpingement)

\* C11 witness: a scan skipped a sample and found its maximum at a later one.
C11_Witness ==
    /\ call = "FresnelImpingementMax"
    /\ \E j, k \in 1..Len(samples) :
          /\ j < k
          /\ samples[j].skipped
          /\ ~samples[k].skipped
          /\ RLt(Zero, maxImpingement)
          /\ samples[k].impingement = maxImpingement
          /\ point = x[k + 1]

\* C12: when every interior sample is skipped, or there is none, the scanner
\* returns fraction 0 at the midpoint l/2 of the normalised path.
C12_AllSkippedFallback ==
    (call = "FresnelImpingementMax" /\ ValidSamples = {}) =>
        /\ maxImpingement = Zero
        /\ point = RDiv(l, R(2))
        /\ RMul(l, l) = RAdd(RMul(d, d), RMul(RSub(p2, p1), RSub(p2, p1)))

\* C12 witness: a scan over a sloped path skipped each of its interior samples.
C12_Witness ==
    /\ call = "FresnelImpingementMax"
    /\ p1 # p2
    /\ Len(samples) >= 2
    /\ ValidSamples = {}

\* C13 as stated: when some interior sample is valid, the returned point is
\* the position x[i] of a valid sample whose fraction is maxImpingement.
C13_PointIsValidSample ==
    (call = "FresnelImpingementMax" /\ ValidSamples # {}) =>
        \E j \in ValidSamples :
            /\ point = x[j + 1]
            /\ samples[j].impingement = maxImpingement

Interior == 2..(N - 1)
AngleEq(a, b) == ~AngleLt(a, b) /\ ~AngleLt(b, a)
\* the rays from the left and from the right endpoint to sample i (1-based)
Ray1(i) == Atan2(y[i], x[i])
Ray2(i) == Atan2(y[i], RSub(l, x[i]))

\* C14 as stated: with an interior sample, theta1 and theta2 are the largest
\* of the interior samples' angles atan2(y[i], x[i]) and atan2(y[i], l - x[i]).
C14_MaxOverInterior ==
    (call = "BullingtonFigure12Method" /\ Interior # {}) =>
        /\ \E i \in Interior : AngleEq(theta1, Ray1(i))
        /\ \A i \in Interior : ~AngleLt(theta1, Ray1(i))
        /\ \E i \in Interior : AngleEq(theta2, Ray2(i))
        /\ \A i \in Interior : ~AngleLt(theta2, Ray2(i))

\* C14: with an interior sample, theta1 is the largest of -Pi/2 and the
\* interior samples' angles atan2(y[i], x[i]), and theta2 the largest of -Pi/2
\* and their angles atan2(y[i], l - x[i]); each is chosen on its own, and no
\* endpoint sample is a candidate.
C14_MaxOverInteriorAndFloor ==
    (call = "BullingtonFigure12Method" /\ Interior # {}) =>
        /\ \/ AngleEq(theta1, NegHalfPi)
           \/ \E i \in Interior : AngleEq(theta1, Ray1(i))
        /\ ~AngleLt(theta1, NegHalfPi)
        /\ \A i \in Interior : ~AngleLt(theta1, Ray1(i))
        /\ \/ AngleEq(theta2, NegHalfPi)
           \/ \E i \in Interior : AngleEq(theta2, Ray2(i))
        /\ ~AngleLt(theta2, NegHalfPi)
        /\ \A i \in Interior : ~AngleLt(theta2, Ray2(i))

\* C14 witness: the two angles came from different interior samples, each
\* above the floor, and one of them is below the ray to an endpoint.
C14_Witness ==
    /\ call = "BullingtonFigure12Method"
    /\ \E i, j \in Interior :
          /\ i # j
          /\ theta1 = Ray1(i) /\ AngleLt(Ray1(j), theta1)
          /\ theta2 = Ray2(j) /\ AngleLt(Ray2(i), theta2)
          /\ AngleLt(NegHalfPi, theta1) /\ AngleLt(NegHalfPi, theta2)
    /\ \/ AngleLt(theta1, Ray1(1))
       \/ AngleLt(theta1, Ray1(N))

\* the third angle of the triangle the solver works in
ThetaA == AngleSub(AngleSub(Pi, theta1), theta2)

\* C16 as stated: when sin(theta_a) is zero, theta_a = Pi - theta1 - theta2,
\* the Bullington method reports an error instead of a distance and a height.
C16_DegenerateGuarded ==
    (call = "BullingtonFigure12Method" /\ Sin(ThetaA) = Zero) => err

\* C17 as stated: on a profile of the two endpoints alone the Bullington
\* method reports an error, or else the angles its knife edge is solved from
\* are not both the floor -Pi/2.
C17_TwoSamplesRejected ==
    (call = "BullingtonFigure12Method" /\ N = 2) =>
        \/ err
        \/ knife = Null
        \/ ~(theta1 = NegHalfPi /\ theta2 = NegHalfPi)

\* sin(a + b) by the addition formula
SinSum(a, b) == RAdd(RMul(Sin(a), Cos(b)), RMul(Cos(a), Sin(b)))
QuarterPi == Atan2(R(1), R(1))
NegQuarterPi == Atan2(R(-1), R(1))

\* C15: for angles with sin(theta1 + theta2) # 0 the solver returns
\* height = l*sin(theta1)*sin(theta2)/sin(theta1+theta2) and
\* dist = l*cos(theta1)*sin(theta2)/sin(theta1+theta2); Pi/4, Pi/4, 10 gives
\* height 5 and distance 5, and -Pi/4, -Pi/4, 10 gives height -5 and distance 5.
C15_TriangleSolution ==
    call = "solveBullingtonFigureTwelveDist" =>
        LET s == SinSum(args.thetab, args.thetac)
        IN  /\ s # Zero =>
                /\ ret.height = RDiv(RMul(args.l, RMul(Sin(args.thetab), Sin(args.thetac))), s)
                /\ ret.dist = RDiv(RMul(args.l, RMul(Cos(args.thetab), Sin(args.thetac))), s)
            /\ args = [thetab |-> QuarterPi, thetac |-> QuarterPi, l |-> R(10)] =>
                ret = [dist |-> R(5), height |-> R(5)]
            /\ args = [thetab |-> NegQuarterPi, thetac |-> NegQuarterPi, l |-> R(10)] =>
                ret = [dist |-> R(5), height |-> R(-5)]

\* C15 witness: the solver was called with two different angles whose sum
\* has a non-zero sine, and returned a point off both axes.
C15_Witness ==
    /\ call = "solveBullingtonFigureTwelveDist"
    /\ AngleLt(args.thetab, args.thetac)
    /\ SinSum(args.thetab, args.thetac) # Zero
    /\ IsFinite(ret.height) /\ ret.height # Zero
    /\ IsFinite(ret.dist) /\ ret.dist # Zero /\ ret.dist # ret.height

ArgWavelength == RDiv(R(C), args.freq)
ArgZone == RDiv(RMul(RMul(RMul(R(args.order), ArgWavelength), args.d1), args.d2),
                RAdd(args.d1, args.d2))

\* C19: FresnelPoint returns an error, with radius 0, exactly when d1 or d2 is
\* below 10 wavelengths (wavelength = C/f); otherwise it returns the square
\* root of order*wavelength*d1*d2/(d1+d2), to the two decimals of Sqrt, and no
\* error.
C19_DomainCheck ==
    call = "FresnelPoint" =>
        /\ err <=> \/ RLt(args.d1, RMul(R(10), ArgWavelength))
                   \/ RLt(args.d2, RMul(R(10), ArgWavelength))
        /\ err => ret = Zero
        /\ ~err =>
              /\ RLe(Zero, ret) /\ RLe(Zero, ArgZone)
              /\ LET k == ret[1] * (100 \div ret[2])
                     s == LongDiv(ArgZone[1] \div ArgZone[2], ArgZone[1] % ArgZone[2],
                                  ArgZone[2], 4)
                 IN  /\ ret = Rat(k, 100)
                     /\ k * k <= s /\ s < (k + 1) * (k + 1)

\* C19 witness: a call with d1 at least 10 wavelengths and a positive d2
\* below them failed.
C19_Witness ==
    /\ call = "FresnelPoint"
    /\ err
    /\ RLe(RMul(R(10), ArgWavelength), args.d1)
    /\ RLt(args.d2, RMul(R(10), ArgWavelength))
    /\ RLt(Zero, args.d2)

\* C20: CalculateFresnelKirchoffLossApprox returns an error, with attenuation
\* 0, exactly when v < -0.7 or v is NaN, and a loss without error for every
\* v >= -0.7; CalculateFresnelKirckoffDiffractionParam never returns an error.
C20_LossDomainCheck ==
    /\ call = "CalculateFresnelKirchoffLossApprox" =>
          /\ err <=> (IsNaN(args.v) \/ RLt(args.v, Rat(-7, 10)))
          /\ err => ret = Zero
          /\ RLe(Rat(-7, 10), args.v) => (~err /\ DOMAIN ret = {"plus", "times", "log10"})
    /\ call = "CalculateFresnelKirckoffDiffractionParam" => ~err

\* C20 witness: the loss approximation refused a NaN.
C20_Witness ==
    /\ call = "CalculateFresnelKirchoffLossApprox"
    /\ IsNaN(args.v)
    /\ err

\* C18 as stated: called with a profile of fewer than 2 samples or a path
\* distance that is not positive, TerrainToPathXY, BullingtonFigure12Method
\* and FresnelImpingementMax return an error.
C18_InputError ==
    (/\ call \in {"TerrainToPathXY", "BullingtonFigure12Method", "FresnelImpingementMax"}
     /\ (N < 2 \/ ~RLt(Zero, d))) => err

\* the tolerance of the tests
allowedError == Rat(2, 1000)
Near(a, b) == RLe(RAbs(RSub(a, b)), allowedError)
\* the height of sample i (0-based) over the line of sight
Over(i) == RSub(terrain[i + 1], RefHeight(i))
\* the samples that hold the largest height over the line of sight
Tied == { i \in 0..(N - 1) : \A j \in 0..(N - 1) : RLe(Over(j), Over(i)) }
IsProfile(a, b, c, t) == p1 = R(a) /\ p2 = R(b) /\ d = R(c) /\ terrain = t

\* C21 as stated: highestImpingement is the largest over all samples of
\* cos(theta)*(terrain[i] - (p1 + i*(p2-p1)/(n-1))), theta the inclination
\* atan2(p2-p1, d) of the line of sight; it is -1 for flat terrain 0 under a
\* level path at height 1, and 0.5 for terrain [0,0,1.5,1.5,0].
C21_HighestIsLargestClearance ==
    call = "TerrainToFresnelKirchoff" =>
        /\ \E i \in Tied : Near(fk.highestImpingement, RMul(CosTheta, Over(i)))
        /\ IsProfile(1, 1, 2, [k \in 1..N |-> Zero]) => fk.highestImpingement = R(-1)
        /\ IsProfile(1, 1, 2, <<Zero, Zero, Rat(3, 2), Rat(3, 2), Zero>>) =>
              fk.highestImpingement = Rat(1, 2)

\* C22: when the samples that share the largest clearance value are one run
\* of adjacent samples, distanceToImpingement is the mean of the first and
\* the last index of the run times the spacing d/(n-1), which is the spacing
\* along the profile divided by cos(theta); terrain [0,1,1,0,0] over d = 2
\* gives 0.75 and [0,0,1.5,1.5,0] gives 1.25.
C22_TieMidpoint ==
    call = "TerrainToFresnelKirchoff" =>
        /\ (\E a, b \in Tied : Tied = a..b) =>
              \E a, b \in Tied :
                  /\ Tied = a..b
                  /\ fk.distanceToImpingement =
                         RMul(RDiv(R(a + b), R(2)), RDiv(d, R(N - 1)))
        /\ IsProfile(1, 1, 2, <<Zero, R(1), R(1), Zero, Zero>>) =>
              fk.distanceToImpingement = Rat(3, 4)
        /\ IsProfile(1, 1, 2, <<Zero, Zero, Rat(3, 2), Rat(3, 2), Zero>>) =>
              fk.distanceToImpingement = Rat(5, 4)

\* C22 witness: the reducer ran over a sloped path where two or more
\* adjacent samples, and no other, share the largest value.
C22_Witness ==
    /\ call = "TerrainToFresnelKirchoff"
    /\ p1 # p2
    /\ Cardinality(Tied) >= 2
    /\ \E a, b \in Tied : Tied = a..b

\* C23 as stated: no call of a function of the package ends in a panic.
C23_NoPanic == ~panicked

InFoliageRange ==
    /\ RLe(R(230), args.freq) /\ RLe(args.freq, R(95000))
    /\ RLe(Zero, args.depth) /\ RLe(args.depth, R(400))

\* C25 as stated: CalculateFoliageLoss returns an error exactly when the
\* frequency is outside [230 MHz, 95 GHz] or the depth outside [0 m, 400 m],
\* and an attenuation without error for every pair in range, depth 0 and
\* depth 400 included.
C25_FoliageRange ==
    call = "CalculateFoliageLoss" =>
        /\ err <=> ~InFoliageRange
        /\ err => ret = Zero
        /\ InFoliageRange => ret # Null

\* a profile of three samples whose interior sample lies strictly between
\* the ends of the axis and off the axis
SingleObstacle ==
    /\ N = 3
    /\ RLt(Zero, x[2]) /\ RLt(x[2], l)
    /\ y[2] # Zero

\* C26: over a normalised profile with one interior sample (x1, y1),
\* 0 < x1 < l and y1 # 0, the knife edge of the Bullington method is that
\* sample: d1 = x1, height = y1, and d1 + d2 = l.
C26_SingleObstacle ==
    (call = "BullingtonFigure12Method" /\ SingleObstacle) =>
        /\ knife.d1 = x[2]
        /\ knife.height = y[2]
        /\ RAdd(knife.d1, knife.d2) = l

\* C26 witness: the method ran over a sloped path with a single obstacle
\* away from the midpoint of the axis and below it.
C26_Witness ==
    /\ call = "BullingtonFigure12Method"
    /\ SingleObstacle
    /\ p1 # p2
    /\ x[2] # RDiv(l, R(2))
    /\ RLt(y[2], Zero)

\* C24: no call changes an element or the length of the caller's profile:
\* every step of every operation leaves terrain as it was.
C24_InputUnchanged == [][terrain' = terrain]_vars

\* C24 witness: SmoothN returned a shorter slice than the profile it was
\* given, which has its length and elements still.
C24_Witness ==
    /\ call = "SmoothN"
    /\ args.n >= 1
    /\ Len(smoothed) < Len(terrain)
    /\ Len(terrain) >= 2
    /\ \E k \in 1..Len(terrain) : terrain[k] # Zero

\* 2^n
RECURSIVE TwoTo(_)
TwoTo(n) == IF n = 0 THEN 1 ELSE 2 * TwoTo(n - 1)

\* C27 as stated: Smooth returns a slice of length floor(len(data)/2) whose
\* element i is the mean (data[2i] + data[2i+1])/2, reading no index outside
\* the input, and SmoothN(n, data) returns a slice of length
\* floor(len(data)/2^n).
C27_PairwiseMean ==
    /\ call = "Smooth" =>
          /\ Len(smoothed) = Len(terrain) \div 2
          /\ \A i \in 0..(Len(smoothed) - 1) :
                /\ 2 * i + 1 < Len(terrain)
                /\ smoothed[i + 1] =
                       RDiv(RAdd(terrain[2 * i + 1], terrain[2 * i + 2]), R(2))
    /\ call = "SmoothN" => Len(smoothed) = Len(terrain) \div TwoTo(args.n)

====
